---- MODULE Spec2Model ----
(***************************************************************************)
(* A model of calc-engine's formula core: src/cells.rs, src/table.rs and   *)
(* src/formular/{mod,ast,parser}.rs.                                       *)
(*                                                                         *)
(* Text is a sequence of ASCII codes.  A Value::Double is an f64; the      *)
(* model tracks exactly the doubles that are integers of magnitude at most *)
(* ExactMax, the two zeros, the two infinities and NaN; every other double *)
(* (a non-integer, or a magnitude beyond ExactMax) is the one abstract     *)
(* value Untracked, which absorbs every operation it enters.               *)
(***************************************************************************)
EXTENDS Integers, Sequences, FiniteSets, TLC

VARIABLES
    overflow_checks,  \* the build profile: TRUE when usize arithmetic is overflow-checked
    src,              \* the text handed to Formular::new
    form,             \* what Formular::new returned for src
    calc,             \* the CellValueCalculator handed to Formular::eval
    added,            \* the CellValueCache::add calls made on calc, in order
    res,              \* what Formular::eval returned, with the lookups it made
    call              \* the last direct call of a function of the crate

vars == <<overflow_checks, src, form, calc, added, res, call>>

----------------------------------------------------------------------------
(* Bounds of the model *)

\* usize is UsizeBits wide (64 or 32 on real targets; scaled down here so
\* that short letter and digit runs already overflow it)
UsizeBits == 8

\* largest magnitude of an integer-valued double the model tracks exactly
ExactMax == 100000

\* longest formula text made of arbitrary pieces
MaxPieces == 3

\* most CellValueCache::add calls on one cache
MaxAdds == 2

\* longest column run and longest row run handed to the leaf parsers directly
MaxRun == 3

----------------------------------------------------------------------------
(* Characters *)

Ord(ch) ==
    CASE ch = " " -> 32 [] ch = "%" -> 37 [] ch = "(" -> 40 [] ch = ")" -> 41
      [] ch = "*" -> 42 [] ch = "+" -> 43 [] ch = "-" -> 45 [] ch = "." -> 46
      [] ch = "/" -> 47
      [] ch = "0" -> 48 [] ch = "1" -> 49 [] ch = "2" -> 50 [] ch = "3" -> 51
      [] ch = "4" -> 52 [] ch = "5" -> 53 [] ch = "6" -> 54 [] ch = "7" -> 55
      [] ch = "8" -> 56 [] ch = "9" -> 57
      [] ch = "A" -> 65 [] ch = "B" -> 66 [] ch = "F" -> 70 [] ch = "Z" -> 90
      [] ch = "^" -> 94
      [] ch = "a" -> 97 [] ch = "b" -> 98 [] ch = "f" -> 102 [] ch = "z" -> 122

\* the text whose characters are the one-character strings of s
Str(s) == [i \in 1..Len(s) |-> Ord(s[i])]

is_ascii_digit(c) == c \in Ord("0")..Ord("9")

is_ascii_alphabetic(c) == c \in Ord("A")..Ord("Z") \/ c \in Ord("a")..Ord("z")

to_ascii_uppercase(c) == IF c \in Ord("a")..Ord("z") THEN c - (Ord("a") - Ord("A")) ELSE c

is_whitespace(c) == c = Ord(" ")

----------------------------------------------------------------------------
(* Results and errors *)

\* F applied to the value of x, the value being computed once
Bind(x, F(_)) == CHOOSE v \in {F(y) : y \in {x}} : TRUE

Ok(x) == [tag |-> "Ok", val |-> x]

Err(e) == [tag |-> "Err", err |-> e]

\* the call does not return: the thread unwinds with a panic
Panic == [tag |-> "Panic"]

IsOk(r) == r.tag = "Ok"

IsErr(r) == r.tag = "Err"

FormularParserError(pos) == [kind |-> "FormularParserError", msg |-> "syntax", at |-> pos]

CellRefParserError(m, c) == [kind |-> "CellRefParserError", msg |-> m, at |-> c]

ValueParserError(m) == [kind |-> "ValueParserError", msg |-> m, at |-> 0]

EvalCycleError == [kind |-> "EvalCycleError", msg |-> "", at |-> 0]

----------------------------------------------------------------------------
(* usize *)

RECURSIVE Pow(_, _)
Pow(b, e) == IF e = 0 THEN 1 ELSE b * Pow(b, e - 1)

UsizeMax == Pow(2, UsizeBits) - 1

----------------------------------------------------------------------------
(* cells.rs: Value, CellRef *)

Num(n) == [k |-> "num", v |-> n]

NegZero == [k |-> "negzero", v |-> 0]

Inf == [k |-> "inf", v |-> 0]

NegInf == [k |-> "neginf", v |-> 0]

NaN == [k |-> "nan", v |-> 0]

Untracked == [k |-> "untracked", v |-> 0]

Value_default == Num(0)

CellRef_new(r, c) == [r |-> r, c |-> c]

----------------------------------------------------------------------------
(* f64 arithmetic (IEEE 754 binary64) on the tracked doubles *)

Abs(n) == IF n < 0 THEN -n ELSE n

IsZero(x) == x.k = "negzero" \/ (x.k = "num" /\ x.v = 0)

IsInfinite(x) == x.k \in {"inf", "neginf"}

\* the sign bit
SignNeg(x) == x.k \in {"negzero", "neginf"} \/ (x.k = "num" /\ x.v < 0)

Zero(neg) == IF neg THEN NegZero ELSE Num(0)

Infinity(neg) == IF neg THEN NegInf ELSE Inf

Track(n) == IF Abs(n) <= ExactMax THEN Num(n) ELSE Untracked

f64_neg(x) ==
    CASE x.k = "num" -> IF x.v = 0 THEN NegZero ELSE Num(-x.v)
      [] x.k = "negzero" -> Num(0)
      [] x.k = "inf" -> NegInf
      [] x.k = "neginf" -> Inf
      [] OTHER -> x

f64_add(a, b) ==
    CASE a.k = "untracked" \/ b.k = "untracked" -> Untracked
      [] a.k = "nan" \/ b.k = "nan" -> NaN
      [] IsInfinite(a) -> IF IsInfinite(b) /\ b # a THEN NaN ELSE a
      [] IsInfinite(b) -> b
      [] IsZero(a) /\ IsZero(b) -> Zero(SignNeg(a) /\ SignNeg(b))
      [] IsZero(a) -> b
      [] IsZero(b) -> a
      [] OTHER -> Track(a.v + b.v)

f64_sub(a, b) == f64_add(a, f64_neg(b))

f64_mul(a, b) ==
    LET neg == SignNeg(a) # SignNeg(b) IN
    CASE a.k = "untracked" \/ b.k = "untracked" -> Untracked
      [] a.k = "nan" \/ b.k = "nan" -> NaN
      [] IsInfinite(a) \/ IsInfinite(b) ->
            IF IsZero(a) \/ IsZero(b) THEN NaN ELSE Infinity(neg)
      [] IsZero(a) \/ IsZero(b) -> Zero(neg)
      [] OTHER -> IF Abs(a.v) > ExactMax \div Abs(b.v) THEN Untracked ELSE Num(a.v * b.v)

f64_div(a, b) ==
    LET neg == SignNeg(a) # SignNeg(b) IN
    CASE a.k = "untracked" \/ b.k = "untracked" -> Untracked
      [] a.k = "nan" \/ b.k = "nan" -> NaN
      [] IsInfinite(a) -> IF IsInfinite(b) THEN NaN ELSE Infinity(neg)
      [] IsInfinite(b) -> Zero(neg)
      [] IsZero(b) -> IF IsZero(a) THEN NaN ELSE Infinity(neg)
      [] IsZero(a) -> Zero(neg)
      [] OTHER -> IF Abs(a.v) % Abs(b.v) = 0
                  THEN Num((IF neg THEN -1 ELSE 1) * (Abs(a.v) \div Abs(b.v)))
                  ELSE Untracked

\* Rust's % on f64 is fmod: the result has the sign of the dividend
f64_rem(a, b) ==
    CASE IsZero(b) -> NaN
      [] a.k = "untracked" \/ b.k = "untracked" -> Untracked
      [] a.k = "nan" \/ b.k = "nan" -> NaN
      [] IsInfinite(a) -> NaN
      [] IsInfinite(b) \/ IsZero(a) -> a
      [] OTHER -> LET r == Abs(a.v) % Abs(b.v) IN
                  IF r = 0 THEN Zero(SignNeg(a)) ELSE Num(IF a.v < 0 THEN -r ELSE r)

RECURSIVE PowAcc(_, _, _)
PowAcc(acc, x, e) ==
    IF e = 0 \/ acc.k = "untracked" THEN acc
    ELSE Bind(f64_mul(acc, x), LAMBDA a : PowAcc(a, x, e - 1))

f64_powf(x, y) ==
    LET odd == y.k = "num" /\ y.v % 2 = 1 IN
    CASE IsZero(y) -> Num(1)
      [] x = Num(1) -> Num(1)
      [] x.k = "untracked" \/ y.k = "untracked" -> Untracked
      [] x.k = "nan" \/ y.k = "nan" -> NaN
      [] y.k = "inf" -> IF IsZero(x) THEN Num(0) ELSE IF x = Num(-1) THEN Num(1) ELSE Inf
      [] y.k = "neginf" -> IF IsZero(x) THEN Inf ELSE IF x = Num(-1) THEN Num(1) ELSE Num(0)
      [] x.k = "inf" -> IF y.v < 0 THEN Num(0) ELSE Inf
      [] x.k = "neginf" -> IF y.v < 0 THEN Zero(odd) ELSE Infinity(odd)
      [] IsZero(x) -> IF y.v < 0 THEN Infinity(odd /\ SignNeg(x)) ELSE Zero(odd /\ SignNeg(x))
      [] x = Num(-1) -> Num(IF odd THEN -1 ELSE 1)
      [] OTHER -> IF y.v < 0 THEN Untracked ELSE PowAcc(Num(1), x, y.v)

----------------------------------------------------------------------------
(* formular/ast.rs: Op *)

Op == {"Plus", "Minus", "Times", "Div", "Rem", "Power"}

\* a checked division, a faulty variant of Op_eval
Op_eval_checked(op, lhs, rhs) ==
    CASE op = "Plus" -> f64_add(lhs, rhs)
      [] op = "Minus" -> f64_sub(lhs, rhs)
      [] op = "Times" -> f64_mul(lhs, rhs)
      [] op = "Div" -> IF IsZero(rhs) THEN NaN ELSE f64_div(lhs, rhs)
      [] op = "Rem" -> IF IsZero(rhs) THEN Value_default ELSE f64_rem(lhs, rhs)
      [] op = "Power" -> f64_powf(lhs, rhs)

Op_eval(op, lhs, rhs) ==
    CASE op = "Plus" -> f64_add(lhs, rhs)
      [] op = "Minus" -> f64_sub(lhs, rhs)
      [] op = "Times" -> f64_mul(lhs, rhs)
      [] op = "Div" -> f64_div(lhs, rhs)
      [] op = "Rem" -> f64_rem(lhs, rhs)
      [] op = "Power" -> f64_powf(lhs, rhs)

----------------------------------------------------------------------------
(* formular/ast.rs: CellValueCalculator, CellValueCache *)

\* CellValueCache(HashMap<CellRef, Value>): the map is a function from the
\* stored coordinates to their values
CellValueCache_new == [impl |-> "CellValueCache", map |-> << >>]

CellValueCache_add(cache, cr, v) ==
    [cache EXCEPT !.map = [x \in DOMAIN cache.map \cup {cr} |->
                              IF x = cr THEN v ELSE cache.map[x]]]

\* a lookup that fails for a coordinate never added, a faulty variant of
\* CellValueCache_get_cell_value
CellValueCache_get_cell_value_strict(cache, cell_ref) ==
    IF cell_ref \in DOMAIN cache.map THEN Ok(cache.map[cell_ref])
    ELSE Err(CellRefParserError("no such cell", 0))

CellValueCache_get_cell_value(cache, cell_ref) ==
    Ok(IF cell_ref \in DOMAIN cache.map THEN cache.map[cell_ref] ELSE Value_default)

\* trait CellValueCalculator: the implementor in this crate is CellValueCache;
\* any other implementor is a function from coordinates to results, given by
\* its results on the coordinates it knows and one result for all others
get_cell_value(cvc, cell_ref) ==
    IF cvc.impl = "CellValueCache"
    THEN CellValueCache_get_cell_value(cvc, cell_ref)
    ELSE IF cell_ref \in DOMAIN cvc.map THEN cvc.map[cell_ref] ELSE cvc.other

----------------------------------------------------------------------------
(* formular/ast.rs: Expr *)

BinOp(op, lhs, rhs) == [t |-> "BinOp", op |-> op, lhs |-> lhs, rhs |-> rhs]

Cell(cell_ref) == [t |-> "Cell", cell_ref |-> cell_ref]

Value(v) == [t |-> "Value", value |-> v]

\* an evaluation that takes the default value for a failed lookup, as a
\* faulty variant of Expr_eval
RECURSIVE Expr_eval_best_effort(_, _)
Expr_eval_best_effort(e, cvc) ==
    CASE e.t = "BinOp" ->
            Bind(Expr_eval_best_effort(e.lhs, cvc), LAMBDA l :
              Bind(Expr_eval_best_effort(e.rhs, cvc), LAMBDA r :
                [res |-> Ok(Op_eval(e.op, l.res.val, r.res.val)),
                 lookups |-> l.lookups \o r.lookups]))
      [] e.t = "Value" -> [res |-> Ok(e.value), lookups |-> << >>]
      [] e.t = "Cell" ->
            Bind(get_cell_value(cvc, e.cell_ref), LAMBDA v :
              [res |-> IF IsOk(v) THEN v ELSE Ok(Value_default), lookups |-> <<e.cell_ref>>])

\* an evaluation that evaluates both operands before it looks at either
\* result, a faulty variant of Expr_eval
RECURSIVE Expr_eval_both_operands(_, _)
Expr_eval_both_operands(e, cvc) ==
    CASE e.t = "BinOp" ->
            Bind(Expr_eval_both_operands(e.lhs, cvc), LAMBDA l :
              Bind(Expr_eval_both_operands(e.rhs, cvc), LAMBDA r :
                [res |-> IF ~IsOk(l.res) THEN l.res
                         ELSE IF ~IsOk(r.res) THEN r.res
                         ELSE Ok(Op_eval(e.op, l.res.val, r.res.val)),
                 lookups |-> l.lookups \o r.lookups]))
      [] e.t = "Value" -> [res |-> Ok(e.value), lookups |-> << >>]
      [] e.t = "Cell" -> [res |-> get_cell_value(cvc, e.cell_ref), lookups |-> <<e.cell_ref>>]

\* Expr::eval, with the sequence of resolver lookups it makes: the two
\* arguments of op.eval are evaluated in order, and ? returns at the first Err
RECURSIVE Expr_eval(_, _)
Expr_eval(e, cvc) ==
    CASE e.t = "BinOp" ->
            Bind(Expr_eval(e.lhs, cvc), LAMBDA l :
              IF ~IsOk(l.res) THEN l
              ELSE Bind(Expr_eval(e.rhs, cvc), LAMBDA r :
                IF ~IsOk(r.res) THEN [res |-> r.res, lookups |-> l.lookups \o r.lookups]
                ELSE [res |-> Ok(Op_eval(e.op, l.res.val, r.res.val)),
                      lookups |-> l.lookups \o r.lookups]))
      [] e.t = "Value" -> [res |-> Ok(e.value), lookups |-> << >>]
      [] e.t = "Cell" -> [res |-> get_cell_value(cvc, e.cell_ref), lookups |-> <<e.cell_ref>>]

RECURSIVE Expr_calc_deps(_)
Expr_calc_deps(e) ==
    CASE e.t = "BinOp" -> Expr_calc_deps(e.lhs) \cup Expr_calc_deps(e.rhs)
      [] e.t = "Cell" -> {e.cell_ref}
      [] OTHER -> {}

----------------------------------------------------------------------------
(* table.rs, cells.rs: Table, Cell *)

Cell_default == [value |-> Value_default]

Cell_get_value(c) == c.value

\* Table { cells: HashMap<CellRef, Cell> }
Table_default == << >>

Table_get_value(cells, cr) ==
    IF cr \in DOMAIN cells THEN Cell_get_value(cells[cr]) ELSE Value_default

----------------------------------------------------------------------------
(* formular/formular.pest is not among the sources: the grammar is modelled *)
(* from the specification's section 4.1, and the shape of the parse tree    *)
(* from the rules build_expr and parse_cell_ref match on.                   *)

Pair(rule, str, inner) == [rule |-> rule, str |-> str, inner |-> inner]

Sub(t, i, j) == SubSeq(t, i, j - 1)

RECURSIVE SkipWs(_, _)
SkipWs(t, i) == IF i <= Len(t) /\ is_whitespace(t[i]) THEN SkipWs(t, i + 1) ELSE i

RECURSIVE ScanDigits(_, _)
ScanDigits(t, i) == IF i <= Len(t) /\ is_ascii_digit(t[i]) THEN ScanDigits(t, i + 1) ELSE i

RECURSIVE ScanLetters(_, _)
ScanLetters(t, i) ==
    IF i <= Len(t) /\ is_ascii_alphabetic(t[i]) THEN ScanLetters(t, i + 1) ELSE i

NoMatch == [ok |-> FALSE, pos |-> 0, pairs |-> << >>]

Match(pos, pairs) == [ok |-> TRUE, pos |-> pos, pairs |-> pairs]

\* number := sign? digit+ ("." digit+)?
MatchNum(t, i) ==
    LET s == IF i <= Len(t) /\ t[i] \in {Ord("+"), Ord("-")} THEN i + 1 ELSE i IN
    Bind(ScanDigits(t, s), LAMBDA d :
      Bind(IF d <= Len(t) /\ t[d] = Ord(".") THEN ScanDigits(t, d + 1) ELSE d, LAMBDA f :
        LET e == IF f > d + 1 THEN f ELSE d IN
        IF d = s THEN NoMatch ELSE Match(e, <<Pair("num", Sub(t, i, e), << >>)>>)))

\* cell_ref := column_letters row_digits
MatchCellRef(t, i) ==
    Bind(ScanLetters(t, i), LAMBDA l :
      Bind(ScanDigits(t, l), LAMBDA d :
        IF l = i \/ d = l THEN NoMatch
        ELSE Match(d, <<Pair("cell_ref", Sub(t, i, d),
                             <<Pair("cell_ref_col", Sub(t, i, l), << >>),
                               Pair("cell_ref_row", Sub(t, l, d), << >>)>>)>>)))

OpRule(c) ==
    CASE c = Ord("+") -> "add" [] c = Ord("-") -> "subtract" [] c = Ord("*") -> "multiply"
      [] c = Ord("/") -> "divide" [] c = Ord("%") -> "rem" [] c = Ord("^") -> "power"
      [] OTHER -> "none"

MatchOp(t, i) ==
    IF i <= Len(t) /\ OpRule(t[i]) # "none"
    THEN Match(i + 1, <<Pair(OpRule(t[i]), Sub(t, i, i + 1), << >>)>>)
    ELSE NoMatch

RECURSIVE MatchExpr(_, _)
RECURSIVE MatchTerm(_, _)
RECURSIVE MatchTail(_, _, _)

\* factor := number | cell_ref | "(" expr ")"
MatchTerm(t, i) ==
    Bind(MatchNum(t, i), LAMBDA n :
      IF n.ok THEN n
      ELSE Bind(MatchCellRef(t, i), LAMBDA c :
        IF c.ok THEN c
        ELSE IF i <= Len(t) /\ t[i] = Ord("(")
        THEN Bind(SkipWs(t, i + 1), LAMBDA j :
               Bind(MatchExpr(t, j), LAMBDA e :
                 Bind(IF e.ok THEN SkipWs(t, e.pos) ELSE 0, LAMBDA k :
                   IF e.ok /\ k <= Len(t) /\ t[k] = Ord(")") THEN Match(k + 1, e.pairs)
                   ELSE NoMatch)))
        ELSE NoMatch))

\* (operator factor)*, whitespace being insignificant between tokens
MatchTail(t, i, acc) ==
    Bind(MatchOp(t, SkipWs(t, i)), LAMBDA o :
      Bind(IF o.ok THEN SkipWs(t, o.pos) ELSE 0, LAMBDA j :
        Bind(IF o.ok THEN MatchTerm(t, j) ELSE NoMatch, LAMBDA r :
          IF r.ok
          THEN Bind(acc \o o.pairs \o r.pairs, LAMBDA a : MatchTail(t, r.pos, a))
          ELSE Match(i, acc))))

\* an expression is one pair of rule expr over the flat run of its factors
\* and operators
MatchExpr(t, i) ==
    Bind(MatchTerm(t, i), LAMBDA f :
      Bind(IF f.ok THEN MatchTail(t, f.pos, f.pairs) ELSE NoMatch, LAMBDA r :
        IF r.ok THEN Match(r.pos, <<Pair("expr", Sub(t, i, r.pos), r.pairs)>>)
        ELSE NoMatch))

\* FormularParser::parse(Rule::formular, s): formula := expr EOF
FormularParser_parse(s) ==
    Bind(SkipWs(s, 1), LAMBDA i :
      Bind(MatchExpr(s, i), LAMBDA e :
        IF e.ok /\ SkipWs(s, e.pos) = Len(s) + 1
        THEN Ok(e.pairs \o <<Pair("EOI", << >>, << >>)>>)
        ELSE Err(FormularParserError(0))))

----------------------------------------------------------------------------
(* formular/parser.rs: leaves *)

\* usize arithmetic: an overflowing operation panics in a build with overflow
\* checks and wraps modulo 2^UsizeBits in a build without them
usize_op(n) ==
    IF n <= UsizeMax THEN Ok(n)
    ELSE IF overflow_checks THEN Panic ELSE Ok(n % (UsizeMax + 1))

\* the fold of parse_cell_ref_col from character i on, col being the accumulator
RECURSIVE col_fold(_, _, _)
col_fold(s, i, col) ==
    IF i > Len(s) \/ ~IsOk(col) THEN col
    ELSE IF ~is_ascii_alphabetic(s[i])
    THEN Err(CellRefParserError("invalid column char", s[i]))
    ELSE LET d == (to_ascii_uppercase(s[i]) - Ord("A")) + 1 IN
         Bind(usize_op(col.val * 26), LAMBDA m :
           Bind(IF IsOk(m) THEN usize_op(m.val + d) ELSE m, LAMBDA a :
             col_fold(s, i + 1, a)))

\* the fold of src/formular.rs, which parser.rs supersedes: the letters'
\* offsets from A are added and never shifted
RECURSIVE col_fold_additive(_, _, _)
col_fold_additive(s, i, col) ==
    IF i > Len(s) \/ ~IsOk(col) THEN col
    ELSE IF ~is_ascii_alphabetic(s[i])
    THEN Err(CellRefParserError("invalid column char", s[i]))
    ELSE Bind(usize_op(col.val + (to_ascii_uppercase(s[i]) - Ord("A"))), LAMBDA m :
           col_fold_additive(s, i + 1, m))

parse_cell_ref_col_additive(s) == col_fold_additive(s, 1, Ok(0))

parse_cell_ref_col(s) == col_fold(s, 1, Ok(0))

\* str::parse::<usize>: checked decimal accumulation
RECURSIVE usize_fold(_, _, _)
usize_fold(s, i, acc) ==
    IF i > Len(s) THEN Ok(acc)
    ELSE IF ~is_ascii_digit(s[i])
    THEN Err(CellRefParserError("invalid digit found in string", 0))
    ELSE Bind(acc * 10 + (s[i] - Ord("0")), LAMBDA a :
           IF a > UsizeMax
           THEN Err(CellRefParserError("number too large to fit in target type", 0))
           ELSE usize_fold(s, i + 1, a))

parse_usize(s) ==
    IF s = << >> THEN Err(CellRefParserError("cannot parse integer from empty string", 0))
    ELSE IF s[1] = Ord("+") /\ Len(s) > 1 THEN usize_fold(s, 2, 0)
    ELSE usize_fold(s, 1, 0)

\* a row parse that saturates instead of failing, a faulty variant of parse_cell_ref_row
parse_cell_ref_row_saturating(s) ==
    Bind(parse_usize(s), LAMBDA r : IF IsOk(r) THEN r ELSE Ok(UsizeMax))

parse_cell_ref_row(s) == parse_usize(s)

\* the for loop of parse_cell_ref from inner pair i on
RECURSIVE cell_ref_loop(_, _, _, _)
cell_ref_loop(inner, i, row, col) ==
    IF i > Len(inner) THEN Ok(Cell(CellRef_new(row, col)))
    ELSE IF inner[i].rule = "cell_ref_row"
    THEN Bind(parse_cell_ref_row(inner[i].str), LAMBDA r :
           IF IsOk(r) THEN cell_ref_loop(inner, i + 1, r.val, col) ELSE r)
    ELSE IF inner[i].rule = "cell_ref_col"
    THEN Bind(parse_cell_ref_col(inner[i].str), LAMBDA c :
           IF IsOk(c) THEN cell_ref_loop(inner, i + 1, row, c.val) ELSE c)
    ELSE Panic

parse_cell_ref(p) == cell_ref_loop(p.inner, 1, 0, 0)

\* the value of the digits of s from i on, 0 <= acc, stopping beyond cap
RECURSIVE dec_fold(_, _, _, _)
dec_fold(s, i, acc, cap) ==
    IF i > Len(s) \/ ~is_ascii_digit(s[i]) \/ acc > cap THEN acc
    ELSE Bind(acc * 10 + (s[i] - Ord("0")), LAMBDA a : dec_fold(s, i + 1, a, cap))

\* str::parse::<f64> on sign? digit* ("." digit*)? with at least one digit
parse_f64(s) ==
    LET neg == s # << >> /\ s[1] = Ord("-")
        b == IF s # << >> /\ s[1] \in {Ord("+"), Ord("-")} THEN 2 ELSE 1
    IN  Bind(ScanDigits(s, b), LAMBDA d :
          Bind(IF d <= Len(s) /\ s[d] = Ord(".") THEN ScanDigits(s, d + 1) ELSE d, LAMBDA f :
            IF f # Len(s) + 1 \/ (d = b /\ f <= d + 1)
            THEN Err(ValueParserError("invalid float literal"))
            ELSE Bind(dec_fold(s, b, 0, ExactMax), LAMBDA n :
                   Bind(IF f > d THEN dec_fold(s, d + 1, 0, ExactMax) ELSE 0, LAMBDA frac :
                     Ok(IF frac # 0 \/ n > ExactMax THEN Untracked
                        ELSE IF n = 0 THEN Zero(neg)
                        ELSE Num(IF neg THEN -n ELSE n))))))

parse_value(p) ==
    Bind(parse_f64(p.str), LAMBDA v : IF IsOk(v) THEN Ok(Value(v.val)) ELSE v)

----------------------------------------------------------------------------
(* formular/parser.rs: PREC_CLIMBER, build_expr *)

Operator_new(rule, assoc) == [rule |-> rule, assoc |-> assoc]

\* power declared left-associative, a faulty variant of PREC_CLIMBER
PREC_CLIMBER_power_left ==
    << {Operator_new("add", "Left"), Operator_new("subtract", "Left")},
       {Operator_new("multiply", "Left"), Operator_new("divide", "Left"),
        Operator_new("rem", "Left")},
       {Operator_new("power", "Left")} >>

\* the additive level declared right-associative, a faulty variant of PREC_CLIMBER
PREC_CLIMBER_add_right ==
    << {Operator_new("add", "Right"), Operator_new("subtract", "Right")},
       {Operator_new("multiply", "Left"), Operator_new("divide", "Left"),
        Operator_new("rem", "Left")},
       {Operator_new("power", "Right")} >>

\* the multiplicative level declared below the additive one, a faulty variant of
\* PREC_CLIMBER
PREC_CLIMBER_times_first ==
    << {Operator_new("multiply", "Left"), Operator_new("divide", "Left"),
        Operator_new("rem", "Left")},
       {Operator_new("add", "Left"), Operator_new("subtract", "Left")},
       {Operator_new("power", "Right")} >>

\* PrecClimber::new gives the operators of the i-th element precedence i
PREC_CLIMBER ==
    << {Operator_new("add", "Left"), Operator_new("subtract", "Left")},
       {Operator_new("multiply", "Left"), Operator_new("divide", "Left"),
        Operator_new("rem", "Left")},
       {Operator_new("power", "Right")} >>

\* self.ops.get(&rule)
IsOperator(rule) == \E i \in 1..Len(PREC_CLIMBER) : \E o \in PREC_CLIMBER[i] : o.rule = rule

Prec(rule) == CHOOSE i \in 1..Len(PREC_CLIMBER) : \E o \in PREC_CLIMBER[i] : o.rule = rule

Assoc(rule) == (CHOOSE o \in PREC_CLIMBER[Prec(rule)] : o.rule = rule).assoc

OpOf(rule) ==
    CASE rule = "add" -> "Plus" [] rule = "subtract" -> "Minus"
      [] rule = "multiply" -> "Times" [] rule = "divide" -> "Div"
      [] rule = "rem" -> "Rem" [] rule = "power" -> "Power"

\* the infix closure of build_expr: lhs?, then rhs?, then the node.  A panic
\* of a primary has unwound the call before any infix runs
infix(lhs, op, rhs) ==
    IF lhs.tag = "Panic" \/ rhs.tag = "Panic" THEN Panic
    ELSE IF ~IsOk(lhs) THEN lhs
    ELSE IF ~IsOk(rhs) THEN rhs
    ELSE Ok(BinOp(OpOf(op.rule), lhs.val, rhs.val))

Climbed(val, pos) == [val |-> val, pos |-> pos]

RECURSIVE build_expr(_)
RECURSIVE climb_rec(_, _, _, _)
RECURSIVE climb_rhs(_, _, _, _)

\* the primary closure of build_expr
primary(pair) ==
    CASE pair.rule = "num" -> parse_value(pair)
      [] pair.rule = "cell_ref" -> parse_cell_ref(pair)
      [] pair.rule = "expr" -> build_expr(pair.inner)
      [] OTHER -> Panic

\* the inner loop of PrecClimber::climb_rec: while the next operator binds
\* tighter than prec, or as tight and to the right, the right operand grows
climb_rhs(rhs, prec, pairs, i) ==
    IF i <= Len(pairs) /\ IsOperator(pairs[i].rule)
       /\ (Prec(pairs[i].rule) > prec
           \/ (Assoc(pairs[i].rule) = "Right" /\ Prec(pairs[i].rule) = prec))
    THEN Bind(climb_rec(rhs, Prec(pairs[i].rule), pairs, i), LAMBDA r :
           climb_rhs(r.val, prec, pairs, r.pos))
    ELSE Climbed(rhs, i)

\* the outer loop of PrecClimber::climb_rec
climb_rec(lhs, min_prec, pairs, i) ==
    IF i <= Len(pairs) /\ IsOperator(pairs[i].rule) /\ Prec(pairs[i].rule) >= min_prec
    THEN IF i + 1 > Len(pairs) THEN Climbed(Panic, i + 1)
         ELSE Bind(primary(pairs[i + 1]), LAMBDA p :
                Bind(climb_rhs(p, Prec(pairs[i].rule), pairs, i + 2), LAMBDA r :
                  Bind(infix(lhs, pairs[i], r.val), LAMBDA l :
                    climb_rec(l, min_prec, pairs, r.pos))))
    ELSE Climbed(lhs, i)

\* PREC_CLIMBER.climb(ast, primary, infix)
build_expr(ast) ==
    IF ast = << >> THEN Panic
    ELSE Bind(primary(ast[1]), LAMBDA lhs : climb_rec(lhs, 0, ast, 2).val)

----------------------------------------------------------------------------
(* formular/mod.rs: Formular *)

\* a constructor that leaves the dependency set empty, as src/formular.rs
\* did, a faulty variant of Formular_new
Formular_new_no_deps(s) ==
    Bind(FormularParser_parse(s), LAMBDA ast :
      IF ~IsOk(ast) THEN ast
      ELSE Bind(build_expr(ast.val), LAMBDA expr :
             IF IsOk(expr) THEN Ok([expr |-> expr.val, deps |-> {}]) ELSE expr))

Formular_new(s) ==
    Bind(FormularParser_parse(s), LAMBDA ast :
      IF ~IsOk(ast) THEN ast
      ELSE Bind(build_expr(ast.val), LAMBDA expr :
             IF IsOk(expr) THEN Ok([expr |-> expr.val, deps |-> Expr_calc_deps(expr.val)])
             ELSE expr))

Formular_eval(f, cell_value_calculator) == Expr_eval(f.expr, cell_value_calculator)

----------------------------------------------------------------------------
(* Inputs *)

None == [tag |-> "None"]

RECURSIVE Concat(_)
Concat(ss) == IF ss = << >> THEN << >> ELSE Head(ss) \o Concat(Tail(ss))

RECURSIVE SeqsUpTo(_, _)
SeqsUpTo(S, n) ==
    IF n = 0 THEN {<< >>}
    ELSE LET shorter == SeqsUpTo(S, n - 1) IN
         shorter \cup {Append(q, x) : q \in {r \in shorter : Len(r) = n - 1}, x \in S}

OpChars == {Str(<<"+">>), Str(<<"-">>), Str(<<"*">>), Str(<<"/">>), Str(<<"%">>), Str(<<"^">>)}

Leaves == {Str(<<"2">>), Str(<<"3">>), Str(<<"A", "1">>)}

\* the formulas a op1 b op2 c, bare and with either pair in parentheses
Chain(a, o1, b, o2, c) == Concat(<<a, o1, b, o2, c>>)

ChainL(a, o1, b, o2, c) == Concat(<<Str(<<"(">>), a, o1, b, Str(<<")">>), o2, c>>)

ChainR(a, o1, b, o2, c) == Concat(<<a, o1, Str(<<"(">>), b, o2, c, Str(<<")">>)>>)

ChainTexts ==
    UNION {{Chain(a, o1, b, o2, c), ChainL(a, o1, b, o2, c), ChainR(a, o1, b, o2, c)} :
           a \in Leaves, b \in Leaves, c \in Leaves, o1 \in OpChars, o2 \in OpChars}

\* the formulas of the specification's examples and of the crate's tests
Ex_2p3t4 == Str(<<"2", " ", "+", " ", "3", " ", "*", " ", "4">>)

Ex_p2p3t4 == Str(<<"(", "2", " ", "+", " ", "3", ")", " ", "*", " ", "4">>)

Ex_2c3c2 == Str(<<"2", " ", "^", " ", "3", " ", "^", " ", "2">>)

Ex_10m3m2 == Str(<<"1", "0", " ", "-", " ", "3", " ", "-", " ", "2">>)

Ex_form_eval ==
    Str(<<"1", " ", "+", " ", "2", " ", "*", " ", "3", " ", "-", " ", "2", " ", "^", " ",
          "(", "3", " ", "-", " ", "2", ")">>)

Ex_error == Str(<<"1", " ", "+", " ", "2", " ", "*", " ", "1", "A">>)

Ex_A1mA1 == Str(<<"A", "1", " ", "-", " ", "A", "1">>)

Ex_A1p1 == Str(<<"A", "1", " ", "+", " ", "1">>)

Examples ==
    {Ex_2p3t4, Ex_p2p3t4, Ex_2c3c2, Ex_10m3m2, Ex_form_eval, Ex_error, Ex_A1mA1, Ex_A1p1}

\* the pieces arbitrary texts are made of: operands, a column run and a row
\* run that overflow usize, a digit followed by a letter, operators,
\* parentheses and a blank
Pieces ==
    {Str(<<"2">>), Str(<<"A", "1">>), Str(<<"Z", "Z", "Z", "1">>),
     Str(<<"b", "9", "9", "9", "9">>), Str(<<"1", "A">>),
     Str(<<"+">>), Str(<<"*">>), Str(<<"^">>), Str(<<"(">>), Str(<<")">>), Str(<<" ">>)}

PieceTexts == {Concat(q) : q \in SeqsUpTo(Pieces, MaxPieces)}

Texts == ChainTexts \cup Examples \cup PieceTexts

----------------------------------------------------------------------------
(* The construction and evaluation of one formula *)

Init ==
    /\ overflow_checks \in BOOLEAN
    /\ src \in Texts
    /\ form = None
    /\ calc = CellValueCache_new
    /\ added = << >>
    /\ res = None
    /\ call = None

\* Formular::new(src)
New ==
    /\ form = None
    /\ form' = Formular_new(src)
    /\ UNCHANGED <<overflow_checks, src, calc, added, res, call>>

\* form.eval(&calc)
Eval ==
    /\ IsOk(form)
    /\ res' = Formular_eval(form.val, calc)
    /\ UNCHANGED <<overflow_checks, src, form, calc, added, call>>

Next == New \/ Eval

Spec == Init /\ [][Next]_vars

----------------------------------------------------------------------------
(* The evaluation of one formula against a resolver *)

A1 == CellRef_new(1, 1)

B2 == CellRef_new(2, 2)

KnownRefs == {A1, B2}

EvalLeaves == {Str(<<"A", "1">>), Str(<<"b", "2">>), Str(<<"2">>)}

EvalOps == {Str(<<"+">>), Str(<<"/">>)}

EvalTexts ==
    EvalLeaves
    \cup {Concat(<<a, o, b>>) : a \in EvalLeaves, o \in OpChars, b \in EvalLeaves}
    \cup UNION {{Chain(a, o1, b, o2, c), ChainL(a, o1, b, o2, c), ChainR(a, o1, b, o2, c)} :
                a \in EvalLeaves, b \in EvalLeaves, c \in EvalLeaves,
                o1 \in EvalOps, o2 \in EvalOps}
    \cup {Ex_A1p1, Ex_A1mA1}

\* what an implementor of CellValueCalculator other than the cache answers
Outcomes ==
    {Ok(Num(3)), Err(EvalCycleError), Err(CellRefParserError("no such cell", 0))}

ExtCalcs ==
    {[impl |-> "ext", map |-> m, other |-> Err(EvalCycleError)] : m \in [KnownRefs -> Outcomes]}

AddValues == {Num(3), Num(5)}

TableRefs == {A1, CellRef_new(12, 34)}

InitEval ==
    /\ overflow_checks = TRUE
    /\ src \in EvalTexts
    /\ form = None
    /\ calc \in {CellValueCache_new} \cup ExtCalcs
    /\ added = << >>
    /\ res = None
    /\ call = None

\* calc.add(cr, v), before the formula is evaluated
Add(cr, v) ==
    /\ calc.impl = "CellValueCache"
    /\ res = None
    /\ Len(added) < MaxAdds
    /\ calc' = CellValueCache_add(calc, cr, v)
    /\ added' = Append(added, <<cr, v>>)
    /\ UNCHANGED <<overflow_checks, src, form, res, call>>

\* Table::default().get_value(&cr): no function of the crate stores a cell
TableGetValue(cr) ==
    /\ call = None
    /\ call' = [fn |-> "Table::get_value", arg |-> cr,
                ret |-> Table_get_value(Table_default, cr)]
    /\ UNCHANGED <<overflow_checks, src, form, calc, added, res>>

NextEval ==
    \/ New
    \/ Eval
    \/ \E cr \in KnownRefs, v \in AddValues : Add(cr, v)
    \/ \E cr \in TableRefs : TableGetValue(cr)

SpecEval == InitEval /\ [][NextEval]_vars

----------------------------------------------------------------------------
(* Direct calls of the leaf parsers, of Op::eval and of Expr::eval *)

ColChars == {Ord("A"), Ord("Z"), Ord("b"), Ord("1")}

RowChars == {Ord("0"), Ord("1"), Ord("9")}

ColRuns == SeqsUpTo(ColChars, MaxRun)

LetterRuns == {s \in ColRuns : s # << >> /\ \A i \in 1..Len(s) : is_ascii_alphabetic(s[i])}

DigitRuns == SeqsUpTo(RowChars, MaxRun) \ {<< >>}

Values ==
    {Num(0), NegZero, Num(1), Num(-1), Num(2), Num(5), Num(6), Num(-3),
     Inf, NegInf, NaN, Untracked}

ExprLeaves == {Value(Num(0)), Value(Num(5)), Cell(A1)}

ExprDepth1 == ExprLeaves \cup {BinOp(o, l, r) : o \in Op, l \in ExprLeaves, r \in ExprLeaves}

ExprInputs ==
    ExprDepth1 \cup {BinOp(o, l, r) : o \in {"Div", "Rem"}, l \in ExprDepth1, r \in ExprDepth1}

ExprCalcs ==
    {CellValueCache_new,
     [impl |-> "ext", map |-> [x \in {A1} |-> Ok(NaN)], other |-> Err(EvalCycleError)],
     [impl |-> "ext", map |-> [x \in {A1} |-> Err(EvalCycleError)],
      other |-> Err(EvalCycleError)]}

InitFn ==
    /\ overflow_checks \in BOOLEAN
    /\ src = << >>
    /\ form = None
    /\ calc = CellValueCache_new
    /\ added = << >>
    /\ res = None
    /\ call = None

CallParseCellRefCol(s) ==
    /\ call = None
    /\ call' = [fn |-> "parse_cell_ref_col", arg |-> s, ret |-> parse_cell_ref_col(s)]
    /\ UNCHANGED <<overflow_checks, src, form, calc, added, res>>

\* the parse_cell_ref_col of the superseded src/formular.rs
CallParseCellRefColAdditive(s) ==
    /\ call = None
    /\ call' = [fn |-> "formular.rs parse_cell_ref_col", arg |-> s,
                ret |-> parse_cell_ref_col_additive(s)]
    /\ UNCHANGED <<overflow_checks, src, form, calc, added, res>>

\* parse_cell_ref on the pair the grammar makes of a letter run and a digit run
CallParseCellRef(c, r) ==
    /\ call = None
    /\ call' = [fn |-> "parse_cell_ref", arg |-> <<c, r>>,
                ret |-> parse_cell_ref(MatchCellRef(c \o r, 1).pairs[1])]
    /\ UNCHANGED <<overflow_checks, src, form, calc, added, res>>

CallOpEval(o, l, r) ==
    /\ call = None
    /\ call' = [fn |-> "Op::eval", arg |-> <<o, l, r>>, ret |-> Ok(Op_eval(o, l, r))]
    /\ UNCHANGED <<overflow_checks, src, form, calc, added, res>>

CallExprEval(e, c) ==
    /\ call = None
    /\ call' = [fn |-> "Expr::eval", arg |-> <<e, c>>, ret |-> Expr_eval(e, c).res]
    /\ UNCHANGED <<overflow_checks, src, form, calc, added, res>>

NextFn ==
    \/ (call = None /\ \E s \in ColRuns : CallParseCellRefCol(s))
    \/ (call = None /\ \E s \in ColRuns : CallParseCellRefColAdditive(s))
    \/ (call = None /\ \E c \in LetterRuns, r \in DigitRuns : CallParseCellRef(c, r))
    \/ (call = None /\ \E o \in Op, l \in Values, r \in Values : CallOpEval(o, l, r))
    \/ (call = None /\ \E e \in ExprInputs, c \in ExprCalcs : CallExprEval(e, c))

SpecFn == InitFn /\ [][NextFn]_vars

----------------------------------------------------------------------------
(* What the claims speak of *)

\* the flat run of factors and operators of the whole formula s
TopPairs(s) == FormularParser_parse(s).val[1].inner

Parses(s) == IsOk(FormularParser_parse(s))

\* the node a factor is built into
Node(p) == primary(p).val

\* how tightly an operator binds: additive 1, multiplicative 2, power 3
Level(rule) ==
    CASE rule \in {"add", "subtract"} -> 1
      [] rule \in {"multiply", "divide", "rem"} -> 2
      [] rule = "power" -> 3

OperatorsAt(ps) == {k \in 1..Len(ps) : k % 2 = 0}

Loosest(ps) ==
    CHOOSE l \in {Level(ps[k].rule) : k \in OperatorsAt(ps)} :
        \A k \in OperatorsAt(ps) : l <= Level(ps[k].rule)

\* tree is a reading of the run ps in which no operator is applied below a
\* tighter-binding operator of the same run and every parenthesized
\* sub-expression is read, alone, as one operand
RECURSIVE Honors(_, _)
Honors(ps, tree) ==
    IF Len(ps) = 1
    THEN IF ps[1].rule = "expr" THEN Honors(ps[1].inner, tree)
         ELSE IsOk(primary(ps[1])) /\ tree = Node(ps[1])
    ELSE /\ tree.t = "BinOp"
         /\ \E k \in OperatorsAt(ps) :
               /\ Level(ps[k].rule) = Loosest(ps)
               /\ tree.op = OpOf(ps[k].rule)
               /\ Honors(SubSeq(ps, 1, k - 1), tree.lhs)
               /\ Honors(SubSeq(ps, k + 1, Len(ps)), tree.rhs)

Evaluated == res # None

EvaluatesTo(s, v) == src = s /\ Evaluated => res.res = Ok(v)

BuiltAs(s, tree) == src = s /\ form # None => IsOk(form) /\ form.val.expr = tree

Lit(n) == Value(Num(n))

\* the leaves of a tree, from left to right
RECURSIVE LeafSeq(_)
LeafSeq(e) == IF e.t = "BinOp" THEN LeafSeq(e.lhs) \o LeafSeq(e.rhs) ELSE <<e>>

IsCellNode(e) == e.t = "Cell"

\* the coordinates of the Cell leaves of a tree, from left to right
CellSeq(e) ==
    LET l == SelectSeq(LeafSeq(e), IsCellNode) IN [i \in 1..Len(l) |-> l[i].cell_ref]

\* the factors of a run that are not parenthesized, from left to right
RECURSIVE LeafPairs(_)
LeafPairs(ps) ==
    IF ps = << >> THEN << >>
    ELSE (IF Head(ps).rule = "expr" THEN LeafPairs(Head(ps).inner)
          ELSE IF Head(ps).rule \in {"num", "cell_ref"} THEN <<Head(ps)>>
          ELSE << >>) \o LeafPairs(Tail(ps))

LetterValue(c) == (IF c >= Ord("a") THEN c - Ord("a") ELSE c - Ord("A")) + 1

\* the base-26 number a letter run denotes
RECURSIVE Base26(_)
Base26(s) ==
    IF s = << >> THEN 0 ELSE Base26(SubSeq(s, 1, Len(s) - 1)) * 26 + LetterValue(s[Len(s)])

\* the decimal number a digit run denotes
RECURSIVE Decimal(_)
Decimal(s) ==
    IF s = << >> THEN 0 ELSE Decimal(SubSeq(s, 1, Len(s) - 1)) * 10 + (s[Len(s)] - Ord("0"))

AllLetters(s) == \A i \in 1..Len(s) : is_ascii_alphabetic(s[i])

----------------------------------------------------------------------------
(* C1..C3: precedence and associativity *)

\* C1: in every formula that is built, multiplicative operators bind tighter
\* than additive ones, power binds tighter than both, and a parenthesized
\* sub-expression is one operand of the operator around it; "2 + 3 * 4" is
\* built as Plus(2, Times(3, 4)) and evaluates to 14, "(2 + 3) * 4" as
\* Times(Plus(2, 3), 4) and evaluates to 20
C1_PrecedenceHonored ==
    /\ IsOk(form) => Honors(TopPairs(src), form.val.expr)
    /\ BuiltAs(Ex_2p3t4, BinOp("Plus", Lit(2), BinOp("Times", Lit(3), Lit(4))))
    /\ EvaluatesTo(Ex_2p3t4, Num(14))
    /\ BuiltAs(Ex_p2p3t4, BinOp("Times", BinOp("Plus", Lit(2), Lit(3)), Lit(4)))
    /\ EvaluatesTo(Ex_p2p3t4, Num(20))

C1_Witness ==
    /\ src = Ex_p2p3t4
    /\ IsOk(form)
    /\ Evaluated
    /\ res.res = Ok(Num(20))

\* C2: a formula a ^ b ^ c of three operands is built as
\* Power(a, Power(b, c)), and "2 ^ 3 ^ 2" evaluates to 512
C2_PowerRightAssociative ==
    /\ IsOk(form) =>
          LET ps == TopPairs(src) IN
          Len(ps) = 5 /\ ps[2].rule = "power" /\ ps[4].rule = "power" =>
             form.val.expr = BinOp("Power", Node(ps[1]), BinOp("Power", Node(ps[3]), Node(ps[5])))
    /\ BuiltAs(Ex_2c3c2, BinOp("Power", Lit(2), BinOp("Power", Lit(3), Lit(2))))
    /\ EvaluatesTo(Ex_2c3c2, Num(512))

C2_Witness ==
    /\ src = Ex_2c3c2
    /\ IsOk(form)
    /\ Evaluated
    /\ res.res = Ok(Num(512))

\* C3: a formula a op1 b op2 c whose operators are both additive or both
\* multiplicative is built as op2(op1(a, b), c), and "10 - 3 - 2" evaluates
\* to 5
C3_LeftAssociative ==
    /\ IsOk(form) =>
          LET ps == TopPairs(src) IN
          /\ Len(ps) = 5
          /\ Level(ps[2].rule) = Level(ps[4].rule)
          /\ Level(ps[2].rule) \in {1, 2}
          => form.val.expr = BinOp(OpOf(ps[4].rule),
                                   BinOp(OpOf(ps[2].rule), Node(ps[1]), Node(ps[3])),
                                   Node(ps[5]))
    /\ BuiltAs(Ex_10m3m2, BinOp("Minus", BinOp("Minus", Lit(10), Lit(3)), Lit(2)))
    /\ EvaluatesTo(Ex_10m3m2, Num(5))

C3_Witness ==
    /\ src = Ex_10m3m2
    /\ IsOk(form)
    /\ Evaluated
    /\ res.res = Ok(Num(5))

----------------------------------------------------------------------------
(* C4, C9: cell references *)

Called(f) == call # None /\ call.fn = f

\* C4: parse_cell_ref_col decodes every non-empty run of ASCII letters as
\* its base-26 number, A..Z and a..z counting 1..26, and answers a run with
\* a non-alphabetic character with a CellRefParserError
C4_Base26Decoding ==
    Called("parse_cell_ref_col") =>
       /\ call.arg # << >> /\ AllLetters(call.arg) => call.ret = Ok(Base26(call.arg))
       /\ ~AllLetters(call.arg) =>
             IsErr(call.ret) /\ call.ret.err.kind = "CellRefParserError"

\* C9 as claimed: for every letter run and digit run parse_cell_ref returns
\* the Cell node of the base-26 column and the decimal row, however large
C9_NoBounds ==
    Called("parse_cell_ref") =>
       call.ret = Ok(Cell(CellRef_new(Decimal(call.arg[2]), Base26(call.arg[1]))))

\* C9 as amended: row and column are usize.  When both numbers fit,
\* parse_cell_ref returns their Cell node; a row beyond usize::MAX is a
\* CellRefParserError; a column beyond usize::MAX overflows the accumulation,
\* which panics under overflow checks and otherwise leaves the column modulo
\* 2^UsizeBits
C9_UsizeBounds ==
    Called("parse_cell_ref") =>
       LET col == Base26(call.arg[1])
           row == Decimal(call.arg[2])
       IN  IF col > UsizeMax /\ overflow_checks THEN call.ret = Panic
           ELSE IF row > UsizeMax
           THEN call.ret = Err(CellRefParserError("number too large to fit in target type", 0))
           ELSE call.ret = Ok(Cell(CellRef_new(row, col % (UsizeMax + 1))))

C9_Witness ==
    /\ Called("parse_cell_ref")
    /\ Base26(call.arg[1]) <= UsizeMax
    /\ Decimal(call.arg[2]) > UsizeMax
    /\ IsErr(call.ret)

----------------------------------------------------------------------------
(* C5, C7: Formular::new *)

\* C5: the dependency set of every constructed Formular is exactly the set
\* of the coordinates of the Cell leaves of its expression, and that of
\* "A1 - A1" has one element
C5_DepsExact ==
    /\ IsOk(form) =>
          LET cs == CellSeq(form.val.expr) IN
          form.val.deps = {cs[i] : i \in 1..Len(cs)}
    /\ src = Ex_A1mA1 /\ form # None => IsOk(form) /\ Cardinality(form.val.deps) = 1

C5_Witness ==
    /\ src = Ex_A1mA1
    /\ IsOk(form)
    /\ form.val.deps = {A1}

FirstOf(S) == CHOOSE i \in S : \A j \in S : i <= j

\* C7: Formular::new returns a syntax error for a text that does not match
\* the grammar, the first sub-build error when the building of a factor
\* fails, and a Formular only otherwise
C7_AllOrNothing ==
    form # None =>
       IF ~Parses(src)
       THEN IsErr(form) /\ form.err.kind = "FormularParserError"
       ELSE LET ls == LeafPairs(TopPairs(src))
                failed == {i \in 1..Len(ls) : ~IsOk(primary(ls[i]))}
            IN  IF failed = {} THEN IsOk(form)
                ELSE IsErr(form) /\ form = primary(ls[FirstOf(failed)])

----------------------------------------------------------------------------
(* C6, C8, C10: evaluation *)

Fails(cr) == ~IsOk(get_cell_value(calc, cr))

\* C6: when a lookup made by an evaluation fails, the evaluation returns
\* that lookup's error and no value, at whatever depth the Cell leaf lies
C6_ResolverErrorPropagates ==
    Evaluated =>
       /\ \A i \in 1..Len(res.lookups) :
             Fails(res.lookups[i]) => res.res = get_cell_value(calc, res.lookups[i])
       /\ LET cs == CellSeq(form.val.expr)
              failed == {i \in 1..Len(cs) : Fails(cs[i])}
          IN  failed # {} =>
                 IsErr(res.res) /\ res.res = get_cell_value(calc, cs[FirstOf(failed)])

C6_Witness ==
    /\ Evaluated
    /\ IsErr(res.res)
    /\ form.val.expr.t = "BinOp"
    /\ form.val.expr.lhs.t = "Cell"
    /\ form.val.expr.rhs.t = "BinOp"
    /\ Len(res.lookups) = 3

Positive(x) == x.k = "inf" \/ (x.k = "num" /\ x.v > 0)

OpEvalTotal ==
    Called("Op::eval") =>
       IsOk(call.ret)
       /\ call.ret.val.k \in {"num", "negzero", "inf", "neginf", "nan", "untracked"}

EvalOkWhenLookupsOk ==
    Called("Expr::eval") =>
       LET cs == CellSeq(call.arg[1]) IN
       (\A i \in 1..Len(cs) : IsOk(get_cell_value(call.arg[2], cs[i]))) => IsOk(call.ret)

ZeroByZeroAndRemainder ==
    Called("Op::eval") =>
       /\ call.arg[1] = "Div" /\ IsZero(call.arg[2]) /\ IsZero(call.arg[3]) =>
             call.ret = Ok(NaN)
       /\ call.arg[1] = "Rem" /\ IsZero(call.arg[3]) => call.ret = Ok(NaN)

\* C8 as claimed: Op::eval returns a value for every operator and operands; a
\* positive number divided by zero is positive infinity, zero divided by zero
\* and a remainder by zero are NaN; an evaluation whose lookups all succeed
\* returns Ok
C8_PositiveByZeroIsPlusInf ==
    /\ OpEvalTotal
    /\ ZeroByZeroAndRemainder
    /\ EvalOkWhenLookupsOk
    /\ Called("Op::eval") =>
          (call.arg[1] = "Div" /\ Positive(call.arg[2]) /\ IsZero(call.arg[3]) =>
              call.ret = Ok(Inf))

\* C8 as amended: the same, but a positive number divided by zero is the
\* infinity of the zero's sign: positive for 0.0, which Value::default() and
\* the literal 0 are, and negative for -0.0
C8_PositiveByZeroIsSignedInf ==
    /\ OpEvalTotal
    /\ ZeroByZeroAndRemainder
    /\ EvalOkWhenLookupsOk
    /\ Called("Op::eval") =>
          (call.arg[1] = "Div" /\ Positive(call.arg[2]) /\ IsZero(call.arg[3]) =>
              call.ret = Ok(IF call.arg[3] = Value_default THEN Inf ELSE NegInf))

C8_Witness ==
    /\ Called("Op::eval")
    /\ call.arg = <<"Div", Num(5), Value_default>>
    /\ call.ret = Ok(Inf)

AddedTo(cr) == {i \in 1..Len(added) : added[i][1] = cr}

LastOf(S) == CHOOSE i \in S : \A j \in S : j <= i

\* C10: the cache answers a coordinate never added with zero and a
\* coordinate added with the value last added for it, never with an error;
\* Table::get_value answers a coordinate without a cell with zero; and
\* "A1 + 1" evaluates to 1 against an empty cache
C10_MissingCellIsZero ==
    /\ calc.impl = "CellValueCache" =>
          \A cr \in KnownRefs \cup TableRefs :
             get_cell_value(calc, cr) =
                Ok(IF AddedTo(cr) = {} THEN Num(0) ELSE added[LastOf(AddedTo(cr))][2])
    /\ calc.impl = "CellValueCache" /\ Evaluated /\ src = Str(<<"A", "1">>) =>
          res.res = Ok(IF AddedTo(A1) = {} THEN Num(0) ELSE added[LastOf(AddedTo(A1))][2])
    /\ Called("Table::get_value") => call.ret = Num(0)
    /\ src = Ex_A1p1 /\ added = << >> /\ calc.impl = "CellValueCache" /\ Evaluated =>
          res.res = Ok(Num(1))

C10_Witness ==
    /\ src = Ex_A1p1
    /\ calc = CellValueCache_new
    /\ Evaluated
    /\ res.res = Ok(Num(1))

----------------------------------------------------------------------------
(* C11: the order of the lookups *)

\* C11: the lookups of one evaluation are a prefix of the left-to-right
\* sequence of the tree's Cell leaves: the whole sequence when every lookup
\* succeeds, and the leaves up to and including the first failing one
\* otherwise, so that no cell to the right of a failed lookup is looked up
C11_LookupsArePrefixOfLeaves ==
    Evaluated =>
       LET cs == CellSeq(form.val.expr)
           failed == {i \in 1..Len(cs) : Fails(cs[i])}
       IN  /\ Len(res.lookups) <= Len(cs)
           /\ \A i \in 1..Len(res.lookups) : res.lookups[i] = cs[i]
           /\ failed = {} => Len(res.lookups) = Len(cs)
           /\ failed # {} => Len(res.lookups) = FirstOf(failed)

C11_Witness ==
    /\ Evaluated
    /\ form.val.expr.t = "BinOp"
    /\ form.val.expr.lhs.t = "BinOp"
    /\ Len(CellSeq(form.val.expr.lhs)) = 2
    /\ Len(CellSeq(form.val.expr.rhs)) = 1
    /\ Fails(CellSeq(form.val.expr.lhs)[2])
    /\ Len(res.lookups) = 2
    /\ IsErr(res.res)

====
